---- MODULE Spec2Model ----
(***************************************************************************)
(* PredictionLoader (src/evaluation/prediction_loader.py): load() reads a  *)
(* CSV file of model predictions row by row and returns a PredictionSet.   *)
(*                                                                         *)
(* A header string is kept as the three parts the code cuts it into:       *)
(* pre \o tok \o suf.  "1_Value1_Face_values" is                           *)
(* [pre |-> "1_Value1_", tok |-> "Face", suf |-> "_values"], "video_id" is *)
(* [pre |-> "", tok |-> "video_id", suf |-> ""].  Two headers are the same *)
(* string iff the records are equal.                                       *)
(***************************************************************************)
EXTENDS Integers, Sequences, FiniteSets, TLC

\* Data rows read from one file.
MaxRows == 2
\* Categories of ANNOTATION_CATEGORIES the model iterates over.
NumCategories == 2

\* One caller in Spec ("main"); a second one in SpecConc ("worker").
Threads == {"main", "worker"}

----------------------------------------------------------------------------
(* Strings *)

\* Python's None, as a cell of a short row (csv.DictReader restval) and as csv_col.
NoneCell == "<None>"

Hdr(pre, tok, suf) == [pre |-> pre, tok |-> tok, suf |-> suf]
Plain(name) == Hdr("", name, "")
ValueCol(tok) == Hdr("1_Value1_", tok, "_values")
NoColumn == Plain(NoneCell)

FILENAME == Plain("filename")
LINK1 == Plain("1_Link1")
VIDEO_ID == Plain("video_id")
IdHeaders == {FILENAME, LINK1, VIDEO_ID}

\* str.lower() on the tokens that occur.
Lower(s) ==
    CASE s \in {"Power_Dominance", "Power_dominance", "POWER_DOMINANCE"} -> "power_dominance"
      [] s \in {"Face", "face", "FACE"} -> "face"
      [] s = "Security_Personal" -> "security_personal"
      [] s = "Security_Social" -> "security_social"
      [] s = "Conformity_Rules" -> "conformity_rules"
      [] s = "Conformity_Interpersonal" -> "conformity_interpersonal"
      [] s = "Tradition" -> "tradition"
      [] s = "Humility" -> "humility"
      [] s = "Benevolence_Dependability" -> "benevolence_dependability"
      [] s = "Benevolence_Care" -> "benevolence_care"
      [] s = "Universalism_Concern" -> "universalism_concern"
      [] s = "Universalism_Nature" -> "universalism_nature"
      [] s = "Universalism_Tolerance" -> "universalism_tolerance"
      [] s = "Self_Direction_Thought" -> "self_direction_thought"
      [] s = "Self_Direction_Action" -> "self_direction_action"
      [] s = "Stimulation" -> "stimulation"
      [] s = "Hedonism" -> "hedonism"
      [] s = "Achievement" -> "achievement"
      [] s = "Power_Resources" -> "power_resources"
      [] s = "1_Value1_" -> "1_value1_"
      [] s = "1_Link1" -> "1_link1"
      [] s = "_VALUES" -> "_values"
      [] OTHER -> s

\* str.strip() on the cell texts that occur.
Strip(s) ==
    CASE s = " " -> ""
      [] s = " present " -> "present"
      [] s = " @alexkay_video_678 " -> "@alexkay_video_678"
      [] OTHER -> s

\* col.startswith('1_Value1_') and col.endswith('_values')
StartsWithPrefix(col) == col.pre = "1_Value1_"
EndsWithSuffix(col) == col.suf = "_values"
\* '_values' in col
ContainsValues(col) == col.suf = "_values"
\* col[9:-7]
CategoryPart(col) == col.tok

----------------------------------------------------------------------------
(* Collaborators outside src/ *)

\* The category list, rotated to start at Power_Dominance (the one category
\* whose COLUMN_MAPPING header is spelled differently from its name).
CategoryNames ==
    << "Power_Dominance", "Face", "Security_Personal", "Security_Social",
       "Conformity_Rules", "Conformity_Interpersonal", "Tradition", "Humility",
       "Benevolence_Dependability", "Benevolence_Care", "Universalism_Concern",
       "Universalism_Nature", "Universalism_Tolerance", "Self_Direction_Thought",
       "Self_Direction_Action", "Stimulation", "Hedonism", "Achievement",
       "Power_Resources" >>

ANNOTATION_CATEGORIES == SubSeq(CategoryNames, 1, NumCategories)
CategorySet == {ANNOTATION_CATEGORIES[i] : i \in 1..Len(ANNOTATION_CATEGORIES)}

\* GroundTruthLoader._convert_value: a numeric code, or None for a text it
\* does not recognize.
GroundTruthConvert(text) ==
    CASE text = "" -> [none |-> FALSE, value |-> 0]
      [] text = "present" -> [none |-> FALSE, value |-> 1]
      [] text = "dominant" -> [none |-> FALSE, value |-> 2]
      [] text = "0" -> [none |-> FALSE, value |-> 0]
      [] text = "1" -> [none |-> FALSE, value |-> 1]
      [] text = "2" -> [none |-> FALSE, value |-> 2]
      [] OTHER -> [none |-> TRUE, value |-> 0]

\* normalize_video_id: the canonical identifier of a raw text, or "".
normalize_video_id(raw) ==
    CASE Strip(raw) = "@alexkay_video_678" -> "alexkay_678"
      [] OTHER -> Strip(raw)

----------------------------------------------------------------------------
(* The class *)

model_name == "model"

\* COLUMN_MAPPING, header -> category, as its items.
COLUMN_MAPPING ==
    {[col |-> ValueCol("Power_dominance"), cat |-> "Power_Dominance"]}
    \cup {[col |-> ValueCol(CategoryNames[i]), cat |-> CategoryNames[i]] :
            i \in 2..Len(CategoryNames)}

\* The reverse lookup of _parse_row: the first header mapped to the category.
MappingColumn(category) ==
    IF \E e \in COLUMN_MAPPING : e.cat = category
    THEN (CHOOSE e \in COLUMN_MAPPING : e.cat = category).col
    ELSE NoColumn


\* dict assignment d[k] = v, dict.get(col, default) and counters.
Put(d, k, v) == [x \in DOMAIN d \cup {k} |-> IF x = k THEN v ELSE d[x]]
Get(row, col, default) == IF col \in DOMAIN row THEN row[col] ELSE default
Count(b, k) == IF k \in DOMAIN b THEN b[k] ELSE 0
Inc(b, k) == Put(b, k, Count(b, k) + 1)

\* column_mapping[category_part.lower()] = col: the key.
MappingKeyCaseSensitive(category_part) == category_part
MappingKey(category_part) == Lower(category_part)

\* The first loop of _build_column_mapping over columns[1..i].
RECURSIVE RegisterColumns(_, _)
RegisterColumns(columns, i) ==
    IF i = 0 THEN << >>
    ELSE LET m == RegisterColumns(columns, i - 1)
             col == columns[i]
         IN  IF StartsWithPrefix(col) /\ EndsWithSuffix(col)
             THEN Put(m, MappingKey(CategoryPart(col)), col)
             ELSE m

ColumnSet(columns) == {columns[i] : i \in 1..Len(columns)}
ExpectedCol(category) == ValueCol(category)

\* The warnings of the second loop of _build_column_mapping.
MismatchWarnings(columns, column_mapping) ==
    {[kind |-> IF Lower(c) \in DOMAIN column_mapping THEN "case_mismatch" ELSE "no_column",
      category |-> c,
      expected |-> ExpectedCol(c),
      found |-> IF Lower(c) \in DOMAIN column_mapping
                THEN column_mapping[Lower(c)] ELSE NoColumn] :
        c \in {x \in CategorySet : ExpectedCol(x) \notin ColumnSet(columns)}}

BuildColumnMapping(columns) ==
    LET m == RegisterColumns(columns, Len(columns))
    IN  [column_mapping |-> m, warnings |-> MismatchWarnings(columns, m)]

\* Format detection of load().
IsTiktokFormat(columns) == \E col \in {FILENAME, LINK1} : col \in ColumnSet(columns)
HasValueColumnsByPattern(columns) ==
    \E col \in ColumnSet(columns) : StartsWithPrefix(col) /\ EndsWithSuffix(col)
HasValueColumns(columns) == \E col \in ColumnSet(columns) : ContainsValues(col)

\* _extract_video_id: normalize_video_id(filename) or filename
ExtractVideoId(filename) ==
    IF normalize_video_id(filename) # "" THEN normalize_video_id(filename) ELSE filename

\* The identifier part of _parse_row: the video id, or no record ("skip"), or
\* the exception of None.strip() on the missing cell of a short row.  The file
\* layouts below put filename and 1_Link1 first, so their cells are never None.
IdentifierOfKeyError(row) ==
    IF FILENAME \in DOMAIN row
    THEN LET video_id == ExtractVideoId(row[FILENAME])
         IN  [outcome |-> IF video_id = "" THEN "skip" ELSE "ok",
              exc |-> "", video_id |-> video_id]
    ELSE IF LINK1 \in DOMAIN row
    THEN LET video_id == normalize_video_id(row[LINK1])
         IN  [outcome |-> IF video_id = "" THEN "skip" ELSE "ok",
              exc |-> "", video_id |-> video_id]
    ELSE IF VIDEO_ID \notin DOMAIN row
    THEN [outcome |-> "raise", exc |-> "KeyError", video_id |-> ""]
    ELSE IF row[VIDEO_ID] = NoneCell
    THEN [outcome |-> "raise", exc |-> "AttributeError", video_id |-> ""]
    ELSE [outcome |-> IF Strip(row[VIDEO_ID]) = "" THEN "skip" ELSE "ok",
          exc |-> "", video_id |-> Strip(row[VIDEO_ID])]
IdentifierOfKeepEmpty(row) ==
    LET id == IF FILENAME \in DOMAIN row THEN ExtractVideoId(row[FILENAME])
              ELSE IF LINK1 \in DOMAIN row THEN normalize_video_id(row[LINK1])
              ELSE IF VIDEO_ID \in DOMAIN row /\ row[VIDEO_ID] # NoneCell
              THEN Strip(row[VIDEO_ID]) ELSE ""
    IN  IF IdHeaders \cap DOMAIN row = {}
        THEN [outcome |-> "skip", exc |-> "", video_id |-> ""]
        ELSE IF FILENAME \notin DOMAIN row /\ LINK1 \notin DOMAIN row
                /\ row[VIDEO_ID] = NoneCell
        THEN [outcome |-> "raise", exc |-> "AttributeError", video_id |-> ""]
        ELSE [outcome |-> "ok", exc |-> "", video_id |-> id]
IdentifierOf(row) ==
    IF FILENAME \in DOMAIN row
    THEN LET video_id == ExtractVideoId(row[FILENAME])
         IN  [outcome |-> IF video_id = "" THEN "skip" ELSE "ok",
              exc |-> "", video_id |-> video_id]
    ELSE IF LINK1 \in DOMAIN row
    THEN LET video_id == normalize_video_id(row[LINK1])
         IN  [outcome |-> IF video_id = "" THEN "skip" ELSE "ok",
              exc |-> "", video_id |-> video_id]
    ELSE IF VIDEO_ID \in DOMAIN row
    THEN IF row[VIDEO_ID] = NoneCell
         THEN [outcome |-> "raise", exc |-> "AttributeError", video_id |-> ""]
         ELSE [outcome |-> IF Strip(row[VIDEO_ID]) = "" THEN "skip" ELSE "ok",
               exc |-> "", video_id |-> Strip(row[VIDEO_ID])]
    ELSE [outcome |-> "skip", exc |-> "", video_id |-> ""]

\* The text handed to _convert_value for one category, or the exception of
\* None.strip() when the cell read is missing from a short row.
ValueStr(row, category, has_value_columns, column_mapping) ==
    IF has_value_columns
    THEN LET csv_col == MappingColumn(category)
             first == IF csv_col # NoColumn THEN Get(row, csv_col, "") ELSE ""
         IN  IF first = NoneCell THEN [raise |-> TRUE, text |-> ""]
             ELSE IF Strip(first) = "" /\ csv_col \notin DOMAIN row
             THEN LET lower_category == Lower(category)
                  IN  IF lower_category \in DOMAIN column_mapping
                      THEN LET second == Get(row, column_mapping[lower_category], "")
                           IN  IF second = NoneCell THEN [raise |-> TRUE, text |-> ""]
                               ELSE [raise |-> FALSE, text |-> Strip(second)]
                      ELSE [raise |-> FALSE, text |-> ""]
             ELSE [raise |-> FALSE, text |-> Strip(first)]
    ELSE LET cell == Get(row, Plain(category), "")
         IN  IF cell = NoneCell THEN [raise |-> TRUE, text |-> ""]
             ELSE [raise |-> FALSE, text |-> Strip(cell)]

\* _convert_value: the numeric value, the dedup-log set afterwards, and
\* whether a warning was logged.
ConvertValueLogAlways(value_str, category, logged) ==
    LET result == GroundTruthConvert(value_str)
    IN  [value |-> IF result.none THEN 0 ELSE result.value,
         logged |-> logged,
         warn |-> result.none /\ value_str # "" /\ <<category, value_str>> \notin logged]
ConvertValue(value_str, category, logged) ==
    IF value_str = NoneCell THEN [value |-> 0, logged |-> logged, warn |-> FALSE]
    ELSE LET result == GroundTruthConvert(value_str)
             key == <<category, value_str>>
             unexpected == result.none /\ value_str # ""
         IN  [value |-> IF result.none THEN 0 ELSE result.value,
              logged |-> IF unexpected THEN logged \cup {key} ELSE logged,
              warn |-> unexpected /\ key \notin logged]

\* annotations[category] = numeric_value
SetAnnotationIfNonZero(annotations, category, numeric_value) ==
    IF numeric_value = 0 THEN annotations ELSE Put(annotations, category, numeric_value)
SetAnnotation(annotations, category, numeric_value) ==
    Put(annotations, category, numeric_value)

\* The category loop of _parse_row after the first i categories.  warned and
\* handed count, per (category, text), the warnings logged and the calls of
\* _convert_value.
RECURSIVE ParseCategories(_, _, _, _, _)
ParseCategories(row, has_value_columns, column_mapping, logged, i) ==
    IF i = 0
    THEN [raised |-> FALSE, annotations |-> << >>, logged |-> logged,
          warned |-> << >>, handed |-> << >>]
    ELSE LET prev == ParseCategories(row, has_value_columns, column_mapping, logged, i - 1)
             category == ANNOTATION_CATEGORIES[i]
             v == ValueStr(row, category, has_value_columns, column_mapping)
             c == ConvertValue(v.text, category, prev.logged)
         IN  IF prev.raised THEN prev
             ELSE IF v.raise THEN [prev EXCEPT !.raised = TRUE]
             ELSE [raised |-> FALSE,
                   annotations |-> SetAnnotation(prev.annotations, category, c.value),
                   logged |-> c.logged,
                   warned |-> IF c.warn THEN Inc(prev.warned, <<category, v.text>>)
                              ELSE prev.warned,
                   handed |-> Inc(prev.handed, <<category, v.text>>)]

\* PredictionResult; source_row is the row_num _parse_row was called with.
PredictionResult(video_id, annotations, row_num) ==
    [video_id |-> video_id, predictions |-> annotations, success |-> TRUE,
     error_message |-> NoneCell, inference_time |-> 0, source_row |-> row_num]

\* _parse_row: "record" with pred, "skip" (returns None) or "raise".
ParseRow(row, has_value_columns, column_mapping, row_num, logged) ==
    LET id == IdentifierOf(row)
        st == ParseCategories(row, has_value_columns, column_mapping, logged,
                              Len(ANNOTATION_CATEGORIES))
    IN  IF id.outcome # "ok"
        THEN [outcome |-> id.outcome, exc |-> id.exc,
              pred |-> PredictionResult("", << >>, row_num),
              logged |-> logged, warned |-> << >>, handed |-> << >>]
        ELSE IF st.raised
        THEN [outcome |-> "raise", exc |-> "AttributeError",
              pred |-> PredictionResult("", << >>, row_num),
              logged |-> st.logged, warned |-> st.warned, handed |-> st.handed]
        ELSE [outcome |-> "record", exc |-> "",
              pred |-> PredictionResult(id.video_id, st.annotations, row_num),
              logged |-> st.logged, warned |-> st.warned, handed |-> st.handed]

\* except Exception
CatchesKeyErrorOnly(exc) == exc = "KeyError"
Catches(exc) == exc \in {"AttributeError", "KeyError", "TypeError", "ValueError"}

\* predictions.append(pred)
AppendPredictionAtFront(predictions, pred) == <<pred>> \o predictions
AppendPrediction(predictions, pred) == Append(predictions, pred)

\* The PredictionSet load() returns.
PredictionSetCountingErrors(predictions, parse_errors) ==
    [model_name |-> model_name, predictions |-> predictions,
     total_count |-> Len(predictions) + Len(parse_errors),
     success_count |-> Len(predictions),
     failure_count |-> Len(parse_errors), failed_video_ids |-> << >>]
PredictionSet(predictions, parse_errors) ==
    [model_name |-> model_name, predictions |-> predictions,
     total_count |-> Len(predictions), success_count |-> Len(predictions),
     failure_count |-> 0, failed_video_ids |-> << >>]

----------------------------------------------------------------------------
(* Input files *)

IdCells == {"", " ", " @alexkay_video_678 "}
ValueCells == {" ", " present ", "maybe"}
CellsFor(col) == IF col \in IdHeaders THEN IdCells ELSE ValueCells

\* Header rows of the files loaded.
Layouts ==
    { << >>,
      <<Plain("Face")>>,
      <<VIDEO_ID, Plain("Face")>>,
      <<Plain("Face"), VIDEO_ID>>,
      <<FILENAME, Plain("Face")>>,
      <<LINK1, Plain("Face")>>,
      <<FILENAME, VIDEO_ID>>,
      <<LINK1, VIDEO_ID>>,
      <<FILENAME, LINK1>>,
      <<VIDEO_ID, Plain("Power_Dominance"), Plain("Face")>>,
      <<VIDEO_ID, ValueCol("Face")>>,
      <<FILENAME, ValueCol("Power_dominance")>>,
      <<VIDEO_ID, ValueCol("Power_Dominance")>>,
      <<VIDEO_ID, ValueCol("face")>>,
      <<VIDEO_ID, ValueCol("face"), ValueCol("FACE")>>,
      <<VIDEO_ID, ValueCol("FACE"), ValueCol("face")>>,
      <<VIDEO_ID, ValueCol("POWER_DOMINANCE"), ValueCol("Power_dominance")>>,
      <<VIDEO_ID, ValueCol("Power_dominance"), ValueCol("POWER_DOMINANCE")>>,
      <<VIDEO_ID, ValueCol("Face"), ValueCol("face")>>,
      <<VIDEO_ID, Hdr("1_value1_", "Face", "_values")>>,
      <<VIDEO_ID, Hdr("1_Value1_", "Face", "_VALUES")>>,
      <<VIDEO_ID, Plain("Face"), Hdr("", "notes", "_values")>>,
      <<VIDEO_ID, Plain("Face"), ValueCol("Face")>> }

\* What a csv_path leads to: nothing, something open() or the header read
\* fails on, or a CSV file with a header row.
Sources ==
    {[kind |-> "missing", columns |-> << >>], [kind |-> "unreadable", columns |-> << >>]}
    \cup {[kind |-> "csv", columns |-> l] : l \in Layouts}
ConcSources ==
    {[kind |-> "missing", columns |-> << >>], [kind |-> "unreadable", columns |-> << >>],
     [kind |-> "csv", columns |-> <<VIDEO_ID, Plain("Face")>>]}

\* The rows csv.DictReader yields under a header row: every header is a key;
\* a line with k fields leaves the later headers at None.
RECURSIVE RowsWithFields(_, _)
RowsWithFields(columns, k) ==
    IF k = 0 THEN {[col \in ColumnSet(columns) |-> NoneCell]}
    ELSE {[r EXCEPT ![columns[k]] = c] :
            r \in RowsWithFields(columns, k - 1), c \in CellsFor(columns[k])}
Rows(columns) == UNION {RowsWithFields(columns, k) : k \in 1..Len(columns)}

----------------------------------------------------------------------------
(* State *)

VARIABLES
    disk,              \* the sources a csv_path can lead to
    _logged_unexpected_values,   \* the loader's attribute, shared by its calls
    pc,                \* per caller: "idle", "reading", "returned", "raised"
    source,            \* what the csv_path of the current call leads to
    exc,               \* the exception load() raised, "" if none
    columns, is_tiktok_format, has_value_columns, column_mapping,
    row_num, row,      \* the loop variables of load()
    predictions, parse_errors,
    result,            \* << >>, or <<the PredictionSet returned>>
    column_warnings,   \* logged by _build_column_mapping in the current call
    warned, handed,    \* per (category, text): warnings logged / conversions
    outcomes           \* per data row of the current call: what _parse_row did

frame == <<source, exc, columns, is_tiktok_format, has_value_columns, column_mapping,
           row_num, row, predictions, parse_errors, result, column_warnings,
           warned, handed, outcomes>>
vars == <<disk, _logged_unexpected_values, pc, frame>>

NoSource == [kind |-> "none", columns |-> << >>]

InitState ==
    /\ _logged_unexpected_values = {}
    /\ pc = [t \in Threads |-> "idle"]
    /\ source = [t \in Threads |-> NoSource]
    /\ exc = [t \in Threads |-> ""]
    /\ columns = [t \in Threads |-> << >>]
    /\ is_tiktok_format = [t \in Threads |-> FALSE]
    /\ has_value_columns = [t \in Threads |-> FALSE]
    /\ column_mapping = [t \in Threads |-> << >>]
    /\ row_num = [t \in Threads |-> 1]
    /\ row = [t \in Threads |-> << >>]
    /\ predictions = [t \in Threads |-> << >>]
    /\ parse_errors = [t \in Threads |-> << >>]
    /\ result = [t \in Threads |-> << >>]
    /\ column_warnings = [t \in Threads |-> {}]
    /\ warned = [t \in Threads |-> << >>]
    /\ handed = [t \in Threads |-> << >>]
    /\ outcomes = [t \in Threads |-> << >>]

Init == disk = Sources /\ InitState
InitConc == disk = ConcSources /\ InitState

\* A new call of load(): fresh locals.
NewCall(t, src) ==
    /\ pc[t] \in {"idle", "returned", "raised"}
    /\ src \in disk
    /\ source' = [source EXCEPT ![t] = src]
    /\ row_num' = [row_num EXCEPT ![t] = 1]
    /\ row' = [row EXCEPT ![t] = << >>]
    /\ predictions' = [predictions EXCEPT ![t] = << >>]
    /\ parse_errors' = [parse_errors EXCEPT ![t] = << >>]
    /\ result' = [result EXCEPT ![t] = << >>]
    /\ warned' = [warned EXCEPT ![t] = << >>]
    /\ handed' = [handed EXCEPT ![t] = << >>]
    /\ outcomes' = [outcomes EXCEPT ![t] = << >>]
    /\ UNCHANGED disk

NoHeader(t) ==
    /\ columns' = [columns EXCEPT ![t] = << >>]
    /\ is_tiktok_format' = [is_tiktok_format EXCEPT ![t] = FALSE]
    /\ has_value_columns' = [has_value_columns EXCEPT ![t] = FALSE]
    /\ column_mapping' = [column_mapping EXCEPT ![t] = << >>]
    /\ column_warnings' = [column_warnings EXCEPT ![t] = {}]

\* load() on a path that does not exist: raises before anything else.
LoadNotFound(t) ==
    \E src \in disk :
        /\ src.kind = "missing"
        /\ NewCall(t, src)
        /\ NoHeader(t)
        /\ pc' = [pc EXCEPT ![t] = "raised"]
        /\ exc' = [exc EXCEPT ![t] = "FileNotFoundError"]
        /\ UNCHANGED _logged_unexpected_values

\* load() on a path that exists but that open() or the read of the header
\* line fails on (a directory, no permission, bytes that are not UTF-8).
LoadOpenFails(t) ==
    \E src \in disk :
        /\ src.kind = "unreadable"
        /\ NewCall(t, src)
        /\ NoHeader(t)
        /\ _logged_unexpected_values' = {}
        /\ pc' = [pc EXCEPT ![t] = "raised"]
        /\ exc' = [exc EXCEPT ![t] = "OSError"]

\* load() up to the row loop: reset the dedup-log set, read the header,
\* detect the format, build the column mapping.
LoadOpen(t) ==
    \E src \in disk :
        /\ src.kind = "csv"
        /\ NewCall(t, src)
        /\ _logged_unexpected_values' = {}
        /\ columns' = [columns EXCEPT ![t] = src.columns]
        /\ is_tiktok_format' = [is_tiktok_format EXCEPT ![t] = IsTiktokFormat(src.columns)]
        /\ has_value_columns' = [has_value_columns EXCEPT ![t] = HasValueColumns(src.columns)]
        /\ column_mapping' =
               [column_mapping EXCEPT ![t] = BuildColumnMapping(src.columns).column_mapping]
        /\ column_warnings' =
               [column_warnings EXCEPT ![t] = BuildColumnMapping(src.columns).warnings]
        /\ pc' = [pc EXCEPT ![t] = "reading"]
        /\ exc' = [exc EXCEPT ![t] = ""]

Merge(b, c) == [k \in DOMAIN b \cup DOMAIN c |-> Count(b, k) + Count(c, k)]

\* One iteration of the row loop: the reader yields a row, _parse_row parses
\* it, the record is appended or the exception is recorded.
ParseRowStep(t) ==
    /\ pc[t] = "reading"
    /\ row_num[t] - 1 < MaxRows
    /\ \E r \in Rows(columns[t]) :
        LET n == row_num[t] + 1
            res == ParseRow(r, has_value_columns[t], column_mapping[t], n,
                            _logged_unexpected_values)
            caught == res.outcome = "raise" /\ Catches(res.exc)
            escapes == res.outcome = "raise" /\ ~Catches(res.exc)
        IN  /\ row_num' = [row_num EXCEPT ![t] = n]
            /\ row' = [row EXCEPT ![t] = r]
            /\ _logged_unexpected_values' = res.logged
            /\ warned' = [warned EXCEPT ![t] = Merge(@, res.warned)]
            /\ handed' = [handed EXCEPT ![t] = Merge(@, res.handed)]
            /\ outcomes' = [outcomes EXCEPT ![t] = Append(@, res.outcome)]
            /\ predictions' =
                   [predictions EXCEPT ![t] =
                       IF res.outcome = "record" THEN AppendPrediction(@, res.pred) ELSE @]
            /\ parse_errors' =
                   [parse_errors EXCEPT ![t] =
                       IF caught THEN Append(@, [row |-> n, message |-> res.exc]) ELSE @]
            /\ pc' = [pc EXCEPT ![t] = IF escapes THEN "raised" ELSE "reading"]
            /\ exc' = [exc EXCEPT ![t] = IF escapes THEN res.exc ELSE @]
    /\ UNCHANGED <<disk, source, columns, is_tiktok_format, has_value_columns,
                   column_mapping, result, column_warnings>>

\* The reader itself fails while fetching the next line (bytes that are not
\* UTF-8, a csv.Error): the for statement is outside the try.
ReaderFails(t) ==
    /\ pc[t] = "reading"
    /\ pc' = [pc EXCEPT ![t] = "raised"]
    /\ exc' = [exc EXCEPT ![t] = "ReadError"]
    /\ UNCHANGED <<disk, _logged_unexpected_values, source, columns, is_tiktok_format,
                   has_value_columns, column_mapping, row_num, row, predictions,
                   parse_errors, result, column_warnings, warned, handed, outcomes>>

\* End of file: load() returns the PredictionSet.
Return(t) ==
    /\ pc[t] = "reading"
    /\ pc' = [pc EXCEPT ![t] = "returned"]
    /\ result' = [result EXCEPT ![t] = <<PredictionSet(predictions[t], parse_errors[t])>>]
    /\ UNCHANGED <<disk, _logged_unexpected_values, source, exc, columns,
                   is_tiktok_format, has_value_columns, column_mapping, row_num, row,
                   predictions, parse_errors, column_warnings, warned, handed, outcomes>>

Step(t) ==
    \/ LoadNotFound(t)
    \/ LoadOpenFails(t)
    \/ LoadOpen(t)
    \/ ParseRowStep(t)
    \/ ReaderFails(t)
    \/ Return(t)

\* One caller: the calls of load() follow each other.
Next == Step("main")
Spec == Init /\ [][Next]_vars

\* Two callers share the loader: their calls interleave at the row loop.
NextConc == \E t \in Threads : Step(t)
SpecConc == InitConc /\ [][NextConc]_vars


----------------------------------------------------------------------------
(* Vocabulary of the properties *)

\* The records of the current call that stem from the row last read (row[t]).
LastRecords(t) ==
    {predictions[t][i] : i \in {j \in 1..Len(predictions[t]) :
                                    predictions[t][j].source_row = row_num[t]}}
LastOutcome(t) == outcomes[t][Len(outcomes[t])]
RowsDone(t) == Len(outcomes[t])

\* The numeric value of a cell's text: the recognized code, 0 otherwise.
ConvertedCell(cell) ==
    IF GroundTruthConvert(Strip(cell)).none THEN 0
    ELSE GroundTruthConvert(Strip(cell)).value
Unexpected(text) == GroundTruthConvert(text).none /\ text # ""
BlankOrUnrecognized(cell) ==
    cell = NoneCell \/ Strip(cell) = "" \/ GroundTruthConvert(Strip(cell)).none

\* The headers of the file that name the category in any letter case.
HeadersNaming(cols, c) == {h \in ColumnSet(cols) : Lower(h.tok) = Lower(c)}
\* Those of the form 1_Value1_<token>_values.
PatternHeadersFor(cols, c) ==
    {h \in HeadersNaming(cols, c) : StartsWithPrefix(h) /\ EndsWithSuffix(h)}
LowerHdr(h) == Hdr(Lower(h.pre), Lower(h.tok), Lower(h.suf))
LastIn(cols, hs) ==
    cols[CHOOSE i \in 1..Len(cols) :
            cols[i] \in hs /\ \A j \in (i + 1)..Len(cols) : cols[j] \notin hs]

\* The identifier field a row is identified by, in priority order.
UsedIdField(r) ==
    IF FILENAME \in DOMAIN r THEN FILENAME
    ELSE IF LINK1 \in DOMAIN r THEN LINK1
    ELSE IF VIDEO_ID \in DOMAIN r THEN VIDEO_ID
    ELSE NoColumn
\* The identifier of a row: the normalized filename or, when that is empty,
\* the filename as written; the normalized link; the trimmed video_id.
RowIdentifier(r) ==
    LET f == UsedIdField(r)
    IN  IF f = NoColumn \/ Get(r, f, "") = NoneCell THEN ""
        ELSE IF f = FILENAME
        THEN (IF normalize_video_id(r[f]) # "" THEN normalize_video_id(r[f]) ELSE r[f])
        ELSE IF f = LINK1 THEN normalize_video_id(r[f])
        ELSE Strip(r[f])

FailuresOutsideRows == {"FileNotFoundError", "OSError", "ReadError"}

----------------------------------------------------------------------------
(* Properties *)

\* C1: every Prediction Record, in the list being built and in the returned
\* Prediction Set, has exactly the canonical categories as keys; a category
\* with no column, or whose cells are blank or unrecognized, has value 0.
C1_KeySetIsCanonical ==
    \A t \in Threads :
        /\ \A i \in 1..Len(predictions[t]) :
               DOMAIN predictions[t][i].predictions = CategorySet
        /\ \A k \in 1..Len(result[t]) : \A i \in 1..Len(result[t][k].predictions) :
               DOMAIN result[t][k].predictions[i].predictions = CategorySet
        /\ \A rec \in LastRecords(t) : \A c \in CategorySet :
               (\A h \in HeadersNaming(columns[t], c) : BlankOrUnrecognized(row[t][h]))
                   => c \in DOMAIN rec.predictions /\ rec.predictions[c] = 0

C1_Witness ==
    \E t \in Threads :
        /\ pc[t] = "returned"
        /\ columns[t] = <<VIDEO_ID, ValueCol("face")>>
        /\ RowsDone(t) = 2
        /\ row[t][ValueCol("face")] = "maybe"
        /\ Len(result[t][1].predictions) = 2
        /\ \E rec \in LastRecords(t) :
               rec.predictions = [c \in CategorySet |-> 0]

\* C2: the records are exactly those of the data rows that have a
\* recognized, non-empty identifier and parse without exception, one per row,
\* in the order of the rows; the returned set holds them in that order.
C2_OneRecordPerValidRowInOrder ==
    \A t \in Threads :
        /\ \A i, j \in 1..Len(predictions[t]) :
               i < j => predictions[t][i].source_row < predictions[t][j].source_row
        /\ \A n \in 1..RowsDone(t) :
               (outcomes[t][n] = "record")
                   <=> (\E i \in 1..Len(predictions[t]) :
                           predictions[t][i].source_row = n + 1)
        /\ \A i \in 1..Len(predictions[t]) :
               predictions[t][i].source_row \in 2..row_num[t]
        /\ RowsDone(t) > 0 =>
               ((LastRecords(t) # {})
                   <=> (RowIdentifier(row[t]) # "" /\ LastOutcome(t) # "raise"))
        /\ \A k \in 1..Len(result[t]) : result[t][k].predictions = predictions[t]

C2_Witness ==
    \E t \in Threads :
        /\ pc[t] = "returned"
        /\ Len(result[t][1].predictions) = 2
        /\ result[t][1].predictions[1].source_row = 2
        /\ result[t][1].predictions[2].source_row = 3
        /\ result[t][1].predictions[1].video_id # result[t][1].predictions[2].video_id

\* C3: in one load, run alone, a warning is logged exactly once for each
\* (category, text) pair with an unrecognized non-empty text that was
\* converted, however many rows hold it, none for any other pair, and a
\* category whose cells are blank or unrecognized is stored as 0.
C3_UnexpectedLoggedOncePerPair ==
    \A t \in Threads :
        /\ \A p \in DOMAIN handed[t] \cup DOMAIN warned[t] :
               Count(warned[t], p) =
                   (IF Unexpected(p[2]) /\ Count(handed[t], p) > 0 THEN 1 ELSE 0)
        /\ \A rec \in LastRecords(t) : \A c \in DOMAIN rec.predictions :
               rec.predictions[c] # 0 =>
                   \E h \in HeadersNaming(columns[t], c) : ~BlankOrUnrecognized(row[t][h])

C3_Witness ==
    \E t \in Threads :
        /\ Count(handed[t], <<"Face", "maybe">>) = 2
        /\ Count(warned[t], <<"Face", "maybe">>) = 1
        /\ Count(handed[t], <<"Power_Dominance", "">>) = 2
        /\ Len(predictions[t]) = 2
        /\ \A i \in 1..2 : predictions[t][i].predictions["Face"] = 0

\* C4: a row whose parsing raises leaves one "Row N: message" diagnostic and
\* no record, load() does not fail for it and goes on with the later rows,
\* and the returned set has total_count = success_count = number of records,
\* failure_count = 0 and no failed identifiers.
C4_RowExceptionIsRecorded ==
    \A t \in Threads :
        /\ \A n \in 1..RowsDone(t) :
               outcomes[t][n] = "raise" =>
                   /\ Cardinality({i \in 1..Len(parse_errors[t]) :
                                     parse_errors[t][i].row = n + 1}) = 1
                   /\ \A i \in 1..Len(predictions[t]) :
                          predictions[t][i].source_row # n + 1
        /\ Len(parse_errors[t]) =
               Cardinality({n \in 1..RowsDone(t) : outcomes[t][n] = "raise"})
        /\ pc[t] = "raised" => exc[t] \in FailuresOutsideRows
        /\ \A k \in 1..Len(result[t]) :
               /\ result[t][k].predictions = predictions[t]
               /\ result[t][k].total_count = Len(predictions[t])
               /\ result[t][k].success_count = Len(predictions[t])
               /\ result[t][k].failure_count = 0
               /\ result[t][k].failed_video_ids = << >>

C4_Witness ==
    \E t \in Threads :
        /\ pc[t] = "returned"
        /\ outcomes[t] = <<"raise", "record">>
        /\ parse_errors[t] = <<[row |-> 2, message |-> "AttributeError"]>>
        /\ result[t][1].total_count = 1

\* C5 as stated: a missing file makes load() raise not-found with nothing
\* read and nothing returned, and nothing but a missing file makes it fail.
C5_OnlyMissingFileFails ==
    \A t \in Threads :
        /\ source[t].kind = "missing" =>
               /\ pc[t] = "raised" /\ exc[t] = "FileNotFoundError"
               /\ columns[t] = << >> /\ outcomes[t] = << >> /\ result[t] = << >>
        /\ pc[t] = "raised" => source[t].kind = "missing"

\* C5 amended: a missing file makes load() raise not-found with nothing read
\* and nothing returned; besides that, load() fails only when open() or the
\* reader fails on the file itself, never for an exception of a row's parsing.
C5_FailsOnlyOutsideRowParsing ==
    \A t \in Threads :
        /\ source[t].kind = "missing" =>
               /\ pc[t] = "raised" /\ exc[t] = "FileNotFoundError"
               /\ columns[t] = << >> /\ outcomes[t] = << >> /\ result[t] = << >>
        /\ pc[t] = "raised" =>
               /\ exc[t] \in FailuresOutsideRows
               /\ exc[t] = "FileNotFoundError" <=> source[t].kind = "missing"
               /\ result[t] = << >>

C5_Witness ==
    \E t \in Threads :
        /\ source[t].kind = "missing"
        /\ pc[t] = "raised"
        /\ exc[t] = "FileNotFoundError"
        /\ _logged_unexpected_values # {}

\* C6: in a file without filename, 1_Link1 and video_id, every row is left
\* out without an exception and without a diagnostic, and the rows after it
\* are still handed to the parser.
C6_RowWithoutIdentifierIsSkipped ==
    \A t \in Threads :
        (source[t].kind = "csv" /\ IdHeaders \cap ColumnSet(columns[t]) = {}) =>
            /\ predictions[t] = << >>
            /\ parse_errors[t] = << >>
            /\ \A n \in 1..RowsDone(t) : outcomes[t][n] = "skip"
            /\ RowsDone(t) = row_num[t] - 1
            /\ exc[t] \in {"", "ReadError"}
            /\ \A k \in 1..Len(result[t]) : result[t][k].total_count = 0

C6_Witness ==
    \E t \in Threads :
        /\ pc[t] = "returned"
        /\ columns[t] = <<Plain("Face")>>
        /\ RowsDone(t) = 2
        /\ row[t][Plain("Face")] = " present "
        /\ result[t][1].predictions = << >>

\* C7 as stated: when the expected header of a category is absent and a
\* header differing from it only in letter case is present, every record's
\* value is the one of that header's cell and a case-mismatch diagnostic for
\* the category was logged.
C7_AnyCaseVariantIsRead ==
    \A t \in Threads : \A c \in CategorySet : \A h \in ColumnSet(columns[t]) :
        (/\ pc[t] # "idle"
         /\ ExpectedCol(c) \notin ColumnSet(columns[t])
         /\ h # ExpectedCol(c)
         /\ LowerHdr(h) = LowerHdr(ExpectedCol(c))) =>
            /\ \E w \in column_warnings[t] : w.kind = "case_mismatch" /\ w.category = c
            /\ \A rec \in LastRecords(t) :
                   row[t][h] # NoneCell /\ rec.predictions[c] = ConvertedCell(row[t][h])

\* C7 amended: when the expected header 1_Value1_<Category>_values is absent
\* and headers 1_Value1_<token>_values whose token differs from the category
\* only in letter case are present, every record's value is the one of the
\* category's COLUMN_MAPPING header if the file has it, else of the last such
\* header, read under its original spelling, and a case-mismatch diagnostic
\* naming the last such header was logged.
C7_CategoryCaseVariantIsRead ==
    \A t \in Threads : \A c \in CategorySet :
        LET variants == PatternHeadersFor(columns[t], c)
            read == IF MappingColumn(c) \in ColumnSet(columns[t])
                    THEN MappingColumn(c) ELSE LastIn(columns[t], variants)
        IN  (/\ pc[t] # "idle"
             /\ ExpectedCol(c) \notin ColumnSet(columns[t])
             /\ variants # {}) =>
                /\ [kind |-> "case_mismatch", category |-> c,
                    expected |-> ExpectedCol(c),
                    found |-> LastIn(columns[t], variants)] \in column_warnings[t]
                /\ \A rec \in LastRecords(t) :
                       /\ row[t][read] # NoneCell
                       /\ rec.predictions[c] = ConvertedCell(row[t][read])

C7_Witness ==
    \E t \in Threads :
        /\ columns[t] = <<VIDEO_ID, ValueCol("face"), ValueCol("FACE")>>
        /\ RowsDone(t) > 0
        /\ row[t][ValueCol("face")] = "maybe"
        /\ row[t][ValueCol("FACE")] = " present "
        /\ \E rec \in LastRecords(t) : rec.predictions["Face"] = 1

\* C8: with two loads interleaving on one loader, each load logs exactly one
\* warning for every unrecognized (category, text) pair it converts.
C8_EachLoadLogsEachPairOnce ==
    \A t \in Threads : \A p \in DOMAIN handed[t] :
        Unexpected(p[2]) => Count(warned[t], p) = 1

C10_EmptyNormalizedIdIsSkipped ==
    \A t \in Threads :
        /\ (/\ RowsDone(t) > 0
            /\ UsedIdField(row[t]) # NoColumn
            /\ row[t][UsedIdField(row[t])] # NoneCell
            /\ normalize_video_id(row[t][UsedIdField(row[t])]) = "")
               => LastRecords(t) = {}
        /\ \A i \in 1..Len(predictions[t]) :
               /\ predictions[t][i].video_id # ""
               /\ normalize_video_id(predictions[t][i].video_id) = predictions[t][i].video_id

\* C10 amended: the identifier of a row is the normalized filename or, when
\* that is empty, the filename as written; else the normalized 1_Link1; else
\* the trimmed video_id.  A row whose identifier is empty yields no record,
\* and every record carries its row's identifier, which is non-empty.
C10_EmptyIdentifierIsSkipped ==
    \A t \in Threads :
        /\ (RowsDone(t) > 0 /\ RowIdentifier(row[t]) = "") => LastRecords(t) = {}
        /\ \A rec \in LastRecords(t) : rec.video_id = RowIdentifier(row[t])
        /\ \A i \in 1..Len(predictions[t]) : predictions[t][i].video_id # ""

C10_Witness ==
    \E t \in Threads :
        /\ columns[t] = <<LINK1, VIDEO_ID>>
        /\ outcomes[t] = <<"record", "skip">>
        /\ row[t][LINK1] = " "
        /\ row[t][VIDEO_ID] = " @alexkay_video_678 "
        /\ predictions[t][1].video_id = "alexkay_678"

====
